---- MODULE Spec2Model ----
(***************************************************************************)
(* The order-creation route handlers of the storefront backend:            *)
(*   - backend/src/api/store/orders/create/route.ts  (POST, with the       *)
(*     duplicate check against the Order Module), specification Spec;      *)
(*   - the earlier revision of the same handler (POST, with payment        *)
(*     collection linkage and no duplicate check), specification SpecPay.  *)
(*                                                                         *)
(* Each invocation of a handler is a process.  A process runs from one     *)
(* await to the next in one atomic step (the JavaScript event loop never   *)
(* preempts a running continuation); an awaited module call takes effect   *)
(* on the shared store in the step that resumes the process.  A thrown     *)
(* error of an awaited call is the outcome ok = FALSE of that step.        *)
(*                                                                         *)
(* Strings that the code inspects or builds (country and currency codes,   *)
(* merchant order ids, display ids, record ids) are sequences of           *)
(* one-character strings; strings it only copies are TLA+ strings.         *)
(* Amounts (unit_price, shipping_total, total) are decimal numbers held as *)
(* integers in thousandths (19.995 is 19995).                              *)
(***************************************************************************)
EXTENDS Integers, Sequences, FiniteSets, TLC

\* ------------------------------------------------------------------ bounds
\* Number of handler invocations.
NumProcs == 2
\* Date.now() returns values in FirstNow..LastNow (9 -> 10 changes the digit count).
FirstNow == 9
LastNow == 10

Procs == 1..NumProcs

\* ------------------------------------------------------- JavaScript values
\* An optional string: undefined, or a string.
Undefined == [present |-> FALSE, v |-> <<>>]
Some(s) == [present |-> TRUE, v |-> s]
\* JavaScript truthiness of an optional string: undefined and "" are falsy.
Truthy(o) == o.present /\ o.v # <<>>
\* o || d
OrElse(o, d) == IF Truthy(o) THEN o.v ELSE d
\* The same for an optional string that the code only copies.
Absent == [present |-> FALSE, v |-> ""]
Given(s) == [present |-> TRUE, v |-> s]
TruthyStr(o) == o.present /\ o.v # ""
OrElseStr(o, d) == IF TruthyStr(o) THEN o.v ELSE d

\* String.prototype.toLowerCase, on the letters the model uses.
LowerChar(c) ==
  CASE c = "D" -> "d"
    [] c = "E" -> "e"
    [] c = "F" -> "f"
    [] c = "J" -> "j"
    [] c = "P" -> "p"
    [] c = "R" -> "r"
    [] c = "S" -> "s"
    [] c = "U" -> "u"
    [] OTHER -> c
toLowerCase(s) == [i \in DOMAIN s |-> LowerChar(s[i])]

DigitChars == <<"0", "1", "2", "3", "4", "5", "6", "7", "8", "9">>
IsDigits(s) == Len(s) > 0 /\ \A i \in DOMAIN s : \E d \in DOMAIN DigitChars : s[i] = DigitChars[d]
\* Number-to-string conversion of a template literal: the decimal digits of n.
RECURSIVE Digits(_)
Digits(n) ==
  IF n < 10 THEN <<DigitChars[n + 1]>>
  ELSE Digits(n \div 10) \o <<DigitChars[(n % 10) + 1]>>

\* --------------------------------------------------------------- requests
M1 == <<"m", "1">>
Mids == {Undefined, Some(<<>>), Some(M1)}

Item1 == [title |-> "Tee", product_title |-> Given("Shirt"),
          quantity |-> 2, unit_price |-> 19995, variant_sku |-> Given("SKU-1")]
Item2 == [title |-> "Cap", product_title |-> Absent,
          quantity |-> 1, unit_price |-> 5000, variant_sku |-> Absent]

NoItems == [present |-> FALSE, v |-> <<>>]
EmptyItems == [present |-> TRUE, v |-> <<>>]
ItemsA == [present |-> TRUE, v |-> <<Item1>>]
ItemsB == [present |-> TRUE, v |-> <<Item1, Item2>>]

NoAddr == [present |-> FALSE, country_code |-> <<>>, address_2 |-> Absent, phone |-> Absent]
AddrJP == [present |-> TRUE, country_code |-> <<"j", "p">>, address_2 |-> Absent, phone |-> Absent]
AddrUS == [present |-> TRUE, country_code |-> <<"U", "S">>, address_2 |-> Given("4b"),
           phone |-> Given("555")]

Email == Given("a@b.c")

\* A request body (CreateOrderBody).
Body(email, items, addr, ship, mid) ==
  [email |-> email, currency_code |-> <<"U", "S", "D">>, items |-> items,
   shipping_address |-> addr, shipping_method |-> "standard",
   shipping_total |-> ship, total |-> 44985,
   payment_intent_id |-> "int_1", merchant_order_id |-> mid]

ValidBodies ==
  {Body(Email, ItemsA, AddrJP, 4995, Some(M1)),
   Body(Email, ItemsB, AddrUS, 0, Some(M1)),
   Body(Email, ItemsB, AddrUS, 0, Undefined),
   Body(Email, ItemsA, AddrJP, 4995, Some(<<>>))}
InvalidBodies ==
  {Body(Absent, ItemsA, AddrJP, 4995, Some(M1)),
   Body(Email, NoItems, AddrJP, 4995, Some(M1)),
   Body(Email, EmptyItems, AddrJP, 4995, Some(M1)),
   Body(Email, ItemsA, NoAddr, 4995, Some(M1))}
Bodies == ValidBodies \cup InvalidBodies
\* The requests sent to the handler with payment linkage.
PayBodies ==
  {Body(Email, ItemsA, AddrJP, 4995, Some(M1)),
   Body(Email, ItemsB, AddrUS, 0, Some(M1)),
   Body(Email, ItemsA, NoAddr, 4995, Some(M1))}
NoBody == Body(Absent, NoItems, NoAddr, 0, Undefined)

\* ---------------------------------------------------------------- regions
EU == [id |-> "reg_eu", countries |-> <<<<"d", "e">>, <<"f", "r">>>>]
US == [id |-> "reg_us", countries |-> <<<<"u", "s">>>>]
NA == [id |-> "reg_na", countries |-> <<<<"c", "a">>, <<"u", "s">>>>]
\* What regionModuleService.listRegions({}) can hold.
RegionLists == {<<>>, <<EU, US, NA>>}
NoRegion == [id |-> "", countries |-> <<>>]

\* ------------------------------------------------------------ Order Module
\* The id the Order Module gives its n-th order.
OrderId(n) == <<"o", "_">> \o Digits(n)
NoMetadata ==
  [present |-> FALSE, payment_intent_id |-> "", merchant_order_id |-> Undefined,
   display_id |-> Undefined, payment_provider |-> "",
   payment_collection_id |-> Undefined, payment_status |-> Absent]
\* An order that another flow (admin, cart completion) put in the store.
ForeignOrder ==
  [id |-> OrderId(1), email |-> "x@y.z", currency_code |-> <<"e", "u", "r">>,
   status |-> "pending",
   shipping_address |-> [country_code |-> <<"d", "e">>, address_2 |-> Given(""), phone |-> Given("")],
   billing_address |-> [country_code |-> <<"d", "e">>, address_2 |-> Given(""), phone |-> Given("")],
   items |-> <<>>, shipping_methods |-> <<>>,
   region_id |-> EU.id, metadata |-> NoMetadata, by |-> 0]

VARIABLES
  regions,      \* the Region Module's regions, in listing order
  orders,       \* the Order Module's orders, in listing order
  now,          \* the last value Date.now() returned
  pc,           \* per invocation: where it is suspended
  body,         \* per invocation: req.body
  region,       \* per invocation: the local `region`
  displayId,    \* per invocation: the local `displayId`
  dupCheck,     \* per invocation: outcome of the duplicate check (existingOrder)
  res,          \* per invocation: the responses sent (res.status(..).json(..))
  calls,        \* per invocation: the module calls issued so far
  atStart,      \* per invocation: the invocations that had completed when it arrived
  paymentCollections,  \* the Payment Module's payment collections
  payments,            \* the Payment Module's payments
  links,               \* the Remote Link's order <-> payment collection links
  order,               \* per invocation: the local `order` (its id)
  paymentCollection,   \* per invocation: the local `paymentCollection` (its id)
  paymentError,        \* per invocation: the call whose error the inner catch caught
  cachedToken,         \* client.ts: the module variable `cachedToken`
  configured,          \* client.ts: AIRWALLEX_CLIENT_ID && AIRWALLEX_API_KEY are set
  response,            \* per getAccessToken call: the local `response` of the login fetch
  returned,            \* per getAccessToken call: what the call returned or threw
  logins,              \* per getAccessToken call: the login requests it sent
  handler,             \* per invocation: the payment-intent handler it runs
  sent,                \* per invocation: the requests it sent to the gateway
  reply,               \* per invocation: the local `response` of the payment-intent fetch
  confirmCachedToken   \* client.ts 178: `cachedToken` of the confirm route's module

payVars == <<paymentCollections, payments, links, order, paymentCollection, paymentError>>
tokVars == <<cachedToken, configured, response, returned, logins>>
intentVars == <<handler, sent, reply, confirmCachedToken>>
vars == <<regions, orders, now, pc, body, region, displayId, dupCheck, res, calls, atStart,
          payVars, tokVars, intentVars>>

NoCalls ==
  [listRegions |-> 0, listAndCountOrders |-> 0, createOrders |-> 0,
   createPaymentCollections |-> 0, createPayments |-> 0, remoteLinkCreate |-> 0,
   updateOrders |-> 0]
Called(p, m) == [calls EXCEPT ![p][m] = @ + 1]

\* ------------------------------------------------------------- responses
ErrorResponse(status, msg) ==
  [status |-> status, success |-> FALSE, id |-> <<>>, display_id |-> <<>>, error |-> msg]
OrderResponse(status, id, display_id) ==
  [status |-> status, success |-> TRUE, id |-> id, display_id |-> display_id, error |-> ""]
Send(p, r) == [res EXCEPT ![p] = Append(@, r)]

\* Invalid without the shipping_address test.
InvalidSkipsAddress(b) ==
  \/ ~TruthyStr(b.email)
  \/ ~(b.items.present /\ Len(b.items.v) > 0)

\* route.ts 45: !body.email || !body.items?.length || !body.shipping_address
Invalid(b) ==
  \/ ~TruthyStr(b.email)
  \/ ~(b.items.present /\ Len(b.items.v) > 0)
  \/ ~b.shipping_address.present

\* route.ts 46-48
MissingFieldsResponse == ErrorResponse(400, "Missing required fields")

\* Serves comparing the codes as they are written (no toLowerCase).
ServesCaseSensitive(r, cc) == \E i \in DOMAIN r.countries : r.countries[i] = cc

\* route.ts 63-67: r.countries?.some(c => c.iso_2?.toLowerCase() === cc.toLowerCase())
Serves(r, cc) ==
  \E i \in DOMAIN r.countries : toLowerCase(r.countries[i]) = toLowerCase(cc)

\* ResolveRegion falling back to the last region instead of regionList[0].
ResolveRegionLast(regionList, cc) ==
  IF \E i \in DOMAIN regionList : Serves(regionList[i], cc)
  THEN regionList[CHOOSE i \in DOMAIN regionList :
                    /\ Serves(regionList[i], cc)
                    /\ \A j \in 1..(i - 1) : ~Serves(regionList[j], cc)]
  ELSE IF Len(regionList) > 0 THEN regionList[Len(regionList)] ELSE NoRegion

\* route.ts 61-68: regionList.find(...) || regionList[0]; NoRegion stands for undefined.
ResolveRegion(regionList, cc) ==
  IF \E i \in DOMAIN regionList : Serves(regionList[i], cc)
  THEN regionList[CHOOSE i \in DOMAIN regionList :
                    /\ Serves(regionList[i], cc)
                    /\ \A j \in 1..(i - 1) : ~Serves(regionList[j], cc)]
  ELSE IF Len(regionList) > 0 THEN regionList[1] ELSE NoRegion

\* NoRegionResponse answered as a server error.
NoRegionResponse500 == ErrorResponse(500, "No region found for the specified country")

\* route.ts 70-74
NoRegionResponse == ErrorResponse(400, "No region found for the specified country")

\* DisplayId with ?? in place of ||: an empty merchant_order_id is kept.
DisplayIdNullish(mid, t) == IF mid.present THEN mid.v ELSE <<"3", "1", "N", "-">> \o Digits(t)

\* route.ts 77: body.merchant_order_id || `31N-${Date.now()}`
DisplayId(mid, t) == OrElse(mid, <<"3", "1", "N", "-">> \o Digits(t))

\* route.ts 183-188: the outer catch
CaughtResponse(msg) == ErrorResponse(500, msg)

\* HasExisting that never finds an order (the duplicate check left out).
HasExistingNever(os, mid) == FALSE

\* HasExisting looking at the first listed order only.
HasExistingFirstOnly(os, mid) ==
  Len(os) > 0 /\ (IF os[1].metadata.present THEN os[1].metadata.merchant_order_id
                  ELSE Undefined) = mid

\* route.ts 82-84: existingOrders.find(o => o.metadata?.merchant_order_id === mid)
MidOf(o) == IF o.metadata.present THEN o.metadata.merchant_order_id ELSE Undefined
Matches(o, mid) == MidOf(o) = mid
HasExisting(os, mid) == \E i \in DOMAIN os : Matches(os[i], mid)
ExistingOrder(os, mid) ==
  os[CHOOSE i \in DOMAIN os : Matches(os[i], mid) /\ \A j \in 1..(i - 1) : ~Matches(os[j], mid)]

\* DuplicateResponse without the `|| existingOrder.id` fallback of the display id.
DuplicateResponseNoFallback(o) ==
  OrderResponse(200, o.id, IF o.metadata.present THEN o.metadata.display_id.v ELSE <<>>)

\* route.ts 88-99
DuplicateResponse(o) ==
  OrderResponse(200, o.id,
                IF o.metadata.present THEN OrElse(o.metadata.display_id, o.id) ELSE o.id)

\* OrderItems with unit_price converted to cents (Math.round(unit_price * 100)).
OrderItemsCents(items) ==
  [i \in DOMAIN items |->
     [title |-> items[i].title,
      subtitle |-> OrElseStr(items[i].product_title, items[i].title),
      quantity |-> items[i].quantity,
      unit_price |-> ((items[i].unit_price * 100 + 500) \div 1000) * 1000,
      fulfilled_quantity |-> 0, delivered_quantity |-> 0, shipped_quantity |-> 0,
      return_requested_quantity |-> 0, return_received_quantity |-> 0,
      return_dismissed_quantity |-> 0, written_off_quantity |-> 0,
      metadata |-> [variant_sku |-> OrElseStr(items[i].variant_sku, ""), index |-> i - 1]]]

\* OrderItems with the position counted from 1.
OrderItemsOneBased(items) ==
  [i \in DOMAIN items |->
     [title |-> items[i].title,
      subtitle |-> OrElseStr(items[i].product_title, items[i].title),
      quantity |-> items[i].quantity,
      unit_price |-> items[i].unit_price,
      fulfilled_quantity |-> 0, delivered_quantity |-> 0, shipped_quantity |-> 0,
      return_requested_quantity |-> 0, return_received_quantity |-> 0,
      return_dismissed_quantity |-> 0, written_off_quantity |-> 0,
      metadata |-> [variant_sku |-> OrElseStr(items[i].variant_sku, ""), index |-> i]]]

\* route.ts 108-124: body.items.map((item, index) => ...)
OrderItems(items) ==
  [i \in DOMAIN items |->
     [title |-> items[i].title,
      subtitle |-> OrElseStr(items[i].product_title, items[i].title),
      quantity |-> items[i].quantity,
      unit_price |-> items[i].unit_price,
      fulfilled_quantity |-> 0, delivered_quantity |-> 0, shipped_quantity |-> 0,
      return_requested_quantity |-> 0, return_received_quantity |-> 0,
      return_dismissed_quantity |-> 0, written_off_quantity |-> 0,
      metadata |-> [variant_sku |-> OrElseStr(items[i].variant_sku, ""), index |-> i - 1]]]

\* Address with the optional fields passed on as they are (undefined when absent).
AddressOptionalKept(a) ==
  [country_code |-> toLowerCase(a.country_code), address_2 |-> a.address_2, phone |-> a.phone]

\* route.ts 130-152: the shipping_address and billing_address objects, both built from
\* body.shipping_address: address_2 || "", phone || "", country_code.toLowerCase().
Address(a) ==
  [country_code |-> toLowerCase(a.country_code),
   address_2 |-> Given(OrElseStr(a.address_2, "")),
   phone |-> Given(OrElseStr(a.phone, ""))]

\* route.ts 154-159
ShippingMethods(b) == <<[name |-> b.shipping_method, amount |-> b.shipping_total]>>

\* OrderMetadata with payment_status "captured" written when the order is created.
OrderMetadataCaptured(b, did) ==
  [present |-> TRUE, payment_intent_id |-> b.payment_intent_id,
   merchant_order_id |-> b.merchant_order_id, display_id |-> Some(did),
   payment_provider |-> "airwallex",
   payment_collection_id |-> Undefined, payment_status |-> Given("captured")]

\* route.ts 161-166
OrderMetadata(b, did) ==
  [present |-> TRUE, payment_intent_id |-> b.payment_intent_id,
   merchant_order_id |-> b.merchant_order_id, display_id |-> Some(did),
   payment_provider |-> "airwallex",
   payment_collection_id |-> Undefined, payment_status |-> Absent]

\* route.ts 127-167: the argument of createOrders, as the Order Module stores it
\* (by: the invocation that created it).
NewOrder(p, b, r, did, st, n) ==
  [id |-> OrderId(n), email |-> b.email.v, currency_code |-> toLowerCase(b.currency_code),
   status |-> st, shipping_address |-> Address(b.shipping_address),
   billing_address |-> Address(b.shipping_address),
   items |-> OrderItems(b.items.v), shipping_methods |-> ShippingMethods(b),
   region_id |-> r.id, metadata |-> OrderMetadata(b, did), by |-> p]

\* CreatedResponse sent with status 200.
CreatedResponse200(o, did) == OrderResponse(200, o.id, did)

\* route.ts 171-182
CreatedResponse(o, did) == OrderResponse(201, o.id, did)

\* ---------------------------------------------------- Airwallex access token
\* client.ts 24: the expiry buffer in milliseconds (Date.now() + 60000).
BufferMs == 60000
\* A JavaScript number that may be NaN.
NaN == [nan |-> TRUE, ms |-> 0]
Num(n) == [nan |-> FALSE, ms |-> n]
\* a > n: false when a is NaN.
GreaterThan(a, n) == ~a.nan /\ a.ms > n
\* The expires_at string of a login response: a date (its time in ms) or not a date.
DateString(n) == [iso |-> TRUE, ms |-> n]
NotADate == [iso |-> FALSE, ms |-> 0]
\* new Date(s).getTime(): NaN for a string that is no date.
GetTime(s) == IF s.iso THEN Num(s.ms) ELSE NaN

\* client.ts 12: cachedToken is null or { token, expiresAt }.
NoToken == [present |-> FALSE, token |-> "", expiresAt |-> Num(0)]
Token(k, e) == [present |-> TRUE, token |-> k, expiresAt |-> e]
\* The tokens the login endpoint hands out.
Tokens == {"tok_1", "tok_2"}
\* What the login endpoint answers at time t: a failure, or a token and its expiry.
NoResponse == [ok |-> FALSE, token |-> "", expires_at |-> NotADate]
LoginResponses(t) ==
  {NoResponse} \cup
  {[ok |-> TRUE, token |-> k, expires_at |-> d] :
     k \in Tokens, d \in {DateString(t + BufferMs), DateString(t + BufferMs + 1), NotADate}}
\* What a getAccessToken call gave its caller.
NotReturned == [kind |-> "none", v |-> ""]
ReturnedToken(k) == [kind |-> "token", v |-> k]
Thrown(msg) == [kind |-> "error", v |-> msg]

\* An order this handler stored for merchant_order_id "m1" in an earlier run of the
\* server (route.ts 127-167).
PriorOrder ==
  [NewOrder(1, Body(Email, ItemsA, AddrJP, 4995, Some(M1)), EU, M1, "completed", 1)
     EXCEPT !.by = 0]

\* ------------------------------------------------------------------- Init
\* The Order Module starts empty, with a foreign order, or (the regions having been
\* removed since) with an order this handler stored earlier.
Init ==
  /\ regions \in RegionLists
  /\ orders \in {<<>>, <<ForeignOrder>>} \cup (IF regions = <<>> THEN {<<PriorOrder>>} ELSE {})
  /\ now = FirstNow
  /\ pc = [p \in Procs |-> "idle"]
  /\ body = [p \in Procs |-> NoBody]
  /\ region = [p \in Procs |-> NoRegion]
  /\ displayId = [p \in Procs |-> <<>>]
  /\ dupCheck = [p \in Procs |-> "none"]
  /\ res = [p \in Procs |-> <<>>]
  /\ calls = [p \in Procs |-> NoCalls]
  /\ atStart = [p \in Procs |-> {}]
  /\ paymentCollections = <<>>
  /\ payments = <<>>
  /\ links = {}
  /\ order = [p \in Procs |-> <<>>]
  /\ paymentCollection = [p \in Procs |-> <<>>]
  /\ paymentError = [p \in Procs |-> "none"]
  /\ cachedToken = NoToken
  /\ configured = TRUE
  /\ response = [p \in Procs |-> NoResponse]
  /\ returned = [p \in Procs |-> NotReturned]
  /\ logins = [p \in Procs |-> 0]
  /\ handler = [p \in Procs |-> "none"]
  /\ sent = [p \in Procs |-> <<>>]
  /\ reply = [p \in Procs |-> [ok |-> FALSE, status |-> 0, text |-> ""]]
  /\ confirmCachedToken = NoToken

\* route.ts 40-59: a request arrives; validation; listRegions is called.
\* Invocations are numbered in their order of arrival.
POST_Validate(p, b) ==
  /\ pc[p] = "idle"
  /\ \A q \in Procs : q < p => pc[q] # "idle"
  /\ body' = [body EXCEPT ![p] = b]
  /\ atStart' = [atStart EXCEPT ![p] = {q \in Procs : pc[q] = "done"}]
  /\ IF Invalid(b)
     THEN /\ res' = Send(p, MissingFieldsResponse)
          /\ pc' = [pc EXCEPT ![p] = "done"]
          /\ UNCHANGED calls
     ELSE /\ calls' = Called(p, "listRegions")
          /\ pc' = [pc EXCEPT ![p] = "listRegions"]
          /\ UNCHANGED res
  /\ UNCHANGED <<regions, orders, now, region, displayId, dupCheck, payVars>>
  /\ UNCHANGED <<tokVars, intentVars>>

\* Date.now() is evaluated only when merchant_order_id is falsy; it returns t, which
\* is not before the value it returned last.
ReadsClock(p, t) ==
  /\ t \in now..LastNow
  /\ Truthy(body[p].merchant_order_id) => t = now

\* route.ts 59-81: listRegions returns (or throws); region resolution; displayId
\* (Date.now() returning t); listAndCountOrders is called.
POST_Regions(p, ok, t) ==
  /\ pc[p] = "listRegions"
  /\ IF ~ok
     THEN /\ t = now
          /\ res' = Send(p, CaughtResponse("listRegions failed"))
          /\ pc' = [pc EXCEPT ![p] = "done"]
          /\ UNCHANGED <<region, displayId, calls, now>>
     ELSE LET r == ResolveRegion(regions, body[p].shipping_address.country_code) IN
          IF r = NoRegion
          THEN /\ t = now
               /\ res' = Send(p, NoRegionResponse)
               /\ pc' = [pc EXCEPT ![p] = "done"]
               /\ UNCHANGED <<region, displayId, calls, now>>
          ELSE /\ ReadsClock(p, t)
               /\ now' = t
               /\ region' = [region EXCEPT ![p] = r]
               /\ displayId' = [displayId EXCEPT ![p] = DisplayId(body[p].merchant_order_id, t)]
               /\ calls' = Called(p, "listAndCountOrders")
               /\ pc' = [pc EXCEPT ![p] = "listAndCountOrders"]
               /\ UNCHANGED res
  /\ UNCHANGED <<regions, orders, body, dupCheck, atStart, payVars>>
  /\ UNCHANGED <<tokVars, intentVars>>

\* POST_ListOrders without the inner catch: a listing error reaches the outer catch.
POST_ListOrdersRethrows(p, ok) ==
  /\ pc[p] = "listAndCountOrders"
  /\ IF ~ok
     THEN /\ dupCheck' = [dupCheck EXCEPT ![p] = "threw"]
          /\ res' = Send(p, CaughtResponse("listAndCountOrders failed"))
          /\ pc' = [pc EXCEPT ![p] = "done"]
          /\ UNCHANGED calls
     ELSE IF HasExisting(orders, body[p].merchant_order_id)
          THEN /\ dupCheck' = [dupCheck EXCEPT ![p] = "found"]
               /\ res' = Send(p, DuplicateResponse(ExistingOrder(orders, body[p].merchant_order_id)))
               /\ pc' = [pc EXCEPT ![p] = "done"]
               /\ UNCHANGED calls
          ELSE /\ dupCheck' = [dupCheck EXCEPT ![p] = "absent"]
               /\ calls' = Called(p, "createOrders")
               /\ pc' = [pc EXCEPT ![p] = "createOrders"]
               /\ UNCHANGED res
  /\ UNCHANGED <<regions, orders, now, body, region, displayId, atStart, payVars>>
  /\ UNCHANGED <<tokVars, intentVars>>

\* route.ts 81-127: listAndCountOrders returns (or throws, which the inner catch
\* swallows); an existing order is answered with 200; otherwise createOrders is called.
POST_ListOrders(p, ok) ==
  /\ pc[p] = "listAndCountOrders"
  /\ IF ok /\ HasExisting(orders, body[p].merchant_order_id)
     THEN /\ dupCheck' = [dupCheck EXCEPT ![p] = "found"]
          /\ res' = Send(p, DuplicateResponse(ExistingOrder(orders, body[p].merchant_order_id)))
          /\ pc' = [pc EXCEPT ![p] = "done"]
          /\ UNCHANGED calls
     ELSE /\ dupCheck' = [dupCheck EXCEPT ![p] = IF ok THEN "absent" ELSE "threw"]
          /\ calls' = Called(p, "createOrders")
          /\ pc' = [pc EXCEPT ![p] = "createOrders"]
          /\ UNCHANGED res
  /\ UNCHANGED <<regions, orders, now, body, region, displayId, atStart, payVars>>
  /\ UNCHANGED <<tokVars, intentVars>>

\* POST_CreateOrders with a createOrders error that ends the handler unanswered.
POST_CreateOrdersUnanswered(p, ok) ==
  /\ pc[p] = "createOrders"
  /\ IF ok
     THEN LET o == NewOrder(p, body[p], region[p], displayId[p], "completed", Len(orders) + 1) IN
          /\ orders' = Append(orders, o)
          /\ res' = Send(p, CreatedResponse(o, displayId[p]))
     ELSE UNCHANGED <<orders, res>>
  /\ pc' = [pc EXCEPT ![p] = "done"]
  /\ UNCHANGED <<regions, now, body, region, displayId, dupCheck, calls, atStart, payVars>>
  /\ UNCHANGED <<tokVars, intentVars>>

\* route.ts 127-188: createOrders returns the stored order (or throws); 201 (or 500).
POST_CreateOrders(p, ok) ==
  /\ pc[p] = "createOrders"
  /\ IF ok
     THEN LET o == NewOrder(p, body[p], region[p], displayId[p], "completed", Len(orders) + 1) IN
          /\ orders' = Append(orders, o)
          /\ res' = Send(p, CreatedResponse(o, displayId[p]))
     ELSE /\ res' = Send(p, CaughtResponse("createOrders failed"))
          /\ UNCHANGED orders
  /\ pc' = [pc EXCEPT ![p] = "done"]
  /\ UNCHANGED <<regions, now, body, region, displayId, dupCheck, calls, atStart, payVars>>
  /\ UNCHANGED <<tokVars, intentVars>>

Next ==
  \/ \E p \in Procs, b \in Bodies : POST_Validate(p, b)
  \/ \E p \in Procs, ok \in BOOLEAN, t \in FirstNow..LastNow : POST_Regions(p, ok, t)
  \/ \E p \in Procs, ok \in BOOLEAN : POST_ListOrders(p, ok)
  \/ \E p \in Procs, ok \in BOOLEAN : POST_CreateOrders(p, ok)

Spec == Init /\ [][Next]_vars

\* route.ts 59, 81, 127: every awaited module call settles (returns or throws), so a
\* suspended invocation is resumed.
Resumes(p) ==
  \/ \E ok \in BOOLEAN, t \in FirstNow..LastNow : POST_Regions(p, ok, t)
  \/ \E ok \in BOOLEAN : POST_ListOrders(p, ok)
  \/ \E ok \in BOOLEAN : POST_CreateOrders(p, ok)

\* The requests of the runs checked for termination: a valid one and one that fails
\* validation (every branch of the handler is taken with these).
LiveBodies ==
  {Body(Email, ItemsA, AddrJP, 4995, Some(M1)),
   Body(Email, ItemsA, NoAddr, 4995, Some(M1))}

NextLive ==
  \/ \E p \in Procs, b \in LiveBodies : POST_Validate(p, b)
  \/ \E p \in Procs : Resumes(p)

SpecLive == Init /\ [][NextLive]_vars /\ \A p \in Procs : WF_vars(Resumes(p))

\* ------------------------------------------- the handler with payment linkage
\* (the earlier revision of the handler; its actions are named POST1_...)

\* 42-61: a request arrives; validation; listRegions is called.
POST1_Validate(p, b) ==
  /\ pc[p] = "idle"
  /\ \A q \in Procs : q < p => pc[q] # "idle"
  /\ body' = [body EXCEPT ![p] = b]
  /\ IF Invalid(b)
     THEN /\ res' = Send(p, MissingFieldsResponse)
          /\ pc' = [pc EXCEPT ![p] = "done"]
          /\ UNCHANGED calls
     ELSE /\ calls' = Called(p, "listRegions")
          /\ pc' = [pc EXCEPT ![p] = "listRegions"]
          /\ UNCHANGED res
  /\ UNCHANGED <<regions, orders, now, region, displayId, dupCheck, atStart, payVars>>
  /\ UNCHANGED <<tokVars, intentVars>>

\* 61-110: listRegions returns (or throws); region resolution; displayId;
\* createOrders is called.  There is no duplicate check.
POST1_Regions(p, ok, t) ==
  /\ pc[p] = "listRegions"
  /\ IF ~ok
     THEN /\ t = now
          /\ res' = Send(p, CaughtResponse("listRegions failed"))
          /\ pc' = [pc EXCEPT ![p] = "done"]
          /\ UNCHANGED <<region, displayId, calls, now>>
     ELSE LET r == ResolveRegion(regions, body[p].shipping_address.country_code) IN
          IF r = NoRegion
          THEN /\ t = now
               /\ res' = Send(p, NoRegionResponse)
               /\ pc' = [pc EXCEPT ![p] = "done"]
               /\ UNCHANGED <<region, displayId, calls, now>>
          ELSE /\ ReadsClock(p, t)
               /\ now' = t
               /\ region' = [region EXCEPT ![p] = r]
               /\ displayId' = [displayId EXCEPT ![p] = DisplayId(body[p].merchant_order_id, t)]
               /\ calls' = Called(p, "createOrders")
               /\ pc' = [pc EXCEPT ![p] = "createOrders"]
               /\ UNCHANGED res
  /\ UNCHANGED <<regions, orders, body, dupCheck, atStart, payVars>>
  /\ UNCHANGED <<tokVars, intentVars>>

\* POST1_CreateOrders with a createOrders error caught locally: the handler goes on
\* to the payment linkage.
POST1_CreateOrdersContinues(p, ok) ==
  /\ pc[p] = "createOrders"
  /\ IF ok
     THEN LET o == NewOrder(p, body[p], region[p], displayId[p], "pending", Len(orders) + 1) IN
          /\ orders' = Append(orders, o)
          /\ order' = [order EXCEPT ![p] = o.id]
     ELSE UNCHANGED <<orders, order>>
  /\ calls' = Called(p, "createPaymentCollections")
  /\ pc' = [pc EXCEPT ![p] = "createPaymentCollections"]
  /\ UNCHANGED res
  /\ UNCHANGED <<regions, now, body, region, displayId, dupCheck, atStart,
                 paymentCollections, payments, links, paymentCollection, paymentError>>
  /\ UNCHANGED <<tokVars, intentVars>>

\* 110-169: createOrders returns the stored order (or throws: 500);
\* createPaymentCollections is called.
POST1_CreateOrders(p, ok) ==
  /\ pc[p] = "createOrders"
  /\ IF ok
     THEN LET o == NewOrder(p, body[p], region[p], displayId[p], "pending", Len(orders) + 1) IN
          /\ orders' = Append(orders, o)
          /\ order' = [order EXCEPT ![p] = o.id]
          /\ calls' = Called(p, "createPaymentCollections")
          /\ pc' = [pc EXCEPT ![p] = "createPaymentCollections"]
          /\ UNCHANGED res
     ELSE /\ res' = Send(p, CaughtResponse("createOrders failed"))
          /\ pc' = [pc EXCEPT ![p] = "done"]
          /\ UNCHANGED <<orders, order, calls>>
  /\ UNCHANGED <<regions, now, body, region, displayId, dupCheck, atStart,
                 paymentCollections, payments, links, paymentCollection, paymentError>>
  /\ UNCHANGED <<tokVars, intentVars>>

\* 213-224: the response after the payment linkage block.
CreatedPendingResponse(id, did) == OrderResponse(201, id, did)

\* LinkageFailed with the inner catch rethrowing to the outer catch (500).
LinkageFailedRethrows(p, step) ==
  /\ paymentError' = [paymentError EXCEPT ![p] = step]
  /\ res' = Send(p, CaughtResponse("payment linkage failed"))
  /\ pc' = [pc EXCEPT ![p] = "done"]

\* 208-224: the inner catch logs the error of `step` and falls through to the 201.
LinkageFailed(p, step) ==
  /\ paymentError' = [paymentError EXCEPT ![p] = step]
  /\ res' = Send(p, CreatedPendingResponse(order[p], displayId[p]))
  /\ pc' = [pc EXCEPT ![p] = "done"]

\* The id the Payment Module gives its n-th payment collection.
PaymentCollectionId(n) == <<"p", "c", "_">> \o Digits(n)

\* 161-186: createPaymentCollections returns the stored collection (or throws);
\* createPayments is called.
POST1_CreatePaymentCollections(p, ok) ==
  /\ pc[p] = "createPaymentCollections"
  /\ IF ok
     THEN LET c == [id |-> PaymentCollectionId(Len(paymentCollections) + 1),
                    currency_code |-> toLowerCase(body[p].currency_code),
                    amount |-> body[p].total, region_id |-> region[p].id,
                    status |-> "completed", order_id |-> order[p]] IN
          /\ paymentCollections' = Append(paymentCollections, c)
          /\ paymentCollection' = [paymentCollection EXCEPT ![p] = c.id]
          /\ calls' = Called(p, "createPayments")
          /\ pc' = [pc EXCEPT ![p] = "createPayments"]
          /\ UNCHANGED <<res, paymentError>>
     ELSE /\ LinkageFailed(p, "createPaymentCollections")
          /\ UNCHANGED <<paymentCollections, paymentCollection, calls>>
  /\ UNCHANGED <<regions, orders, now, body, region, displayId, dupCheck, atStart,
                 payments, links, order>>
  /\ UNCHANGED <<tokVars, intentVars>>

\* POST1_CreatePayments with the payment not stored before the link is made.
POST1_CreatePaymentsNotStored(p, ok) ==
  /\ pc[p] = "createPayments"
  /\ IF ok
     THEN /\ calls' = Called(p, "remoteLinkCreate")
          /\ pc' = [pc EXCEPT ![p] = "remoteLinkCreate"]
          /\ UNCHANGED <<res, paymentError>>
     ELSE /\ LinkageFailed(p, "createPayments")
          /\ UNCHANGED calls
  /\ UNCHANGED <<regions, orders, now, body, region, displayId, dupCheck, atStart,
                 paymentCollections, payments, links, order, paymentCollection>>
  /\ UNCHANGED <<tokVars, intentVars>>

\* 172-196: createPayments returns (or throws); remoteLink.create is called.
POST1_CreatePayments(p, ok) ==
  /\ pc[p] = "createPayments"
  /\ IF ok
     THEN /\ payments' = Append(payments,
                 [amount |-> body[p].total,
                  currency_code |-> toLowerCase(body[p].currency_code),
                  provider_id |-> "pp_system_default",
                  payment_collection_id |-> paymentCollection[p],
                  payment_intent_id |-> body[p].payment_intent_id,
                  captured |-> TRUE,
                  merchant_order_id |-> body[p].merchant_order_id])
          /\ calls' = Called(p, "remoteLinkCreate")
          /\ pc' = [pc EXCEPT ![p] = "remoteLinkCreate"]
          /\ UNCHANGED <<res, paymentError>>
     ELSE /\ LinkageFailed(p, "createPayments")
          /\ UNCHANGED <<payments, calls>>
  /\ UNCHANGED <<regions, orders, now, body, region, displayId, dupCheck, atStart,
                 paymentCollections, links, order, paymentCollection>>
  /\ UNCHANGED <<tokVars, intentVars>>

\* 189-205: remoteLink.create returns (or throws); updateOrders is called.
POST1_RemoteLink(p, ok) ==
  /\ pc[p] = "remoteLinkCreate"
  /\ IF ok
     THEN /\ links' = links \cup {[order_id |-> order[p],
                                   payment_collection_id |-> paymentCollection[p]]}
          /\ calls' = Called(p, "updateOrders")
          /\ pc' = [pc EXCEPT ![p] = "updateOrders"]
          /\ UNCHANGED <<res, paymentError>>
     ELSE /\ LinkageFailed(p, "remoteLinkCreate")
          /\ UNCHANGED <<links, calls>>
  /\ UNCHANGED <<regions, orders, now, body, region, displayId, dupCheck, atStart,
                 paymentCollections, payments, order, paymentCollection>>
  /\ UNCHANGED <<tokVars, intentVars>>

\* 199-205: the metadata updateOrders writes: the created order's metadata (the
\* local order.metadata) with payment_collection_id and payment_status added.
CapturedMetadata(p) ==
  [OrderMetadata(body[p], displayId[p]) EXCEPT
     !.payment_collection_id = Some(paymentCollection[p]),
     !.payment_status = Given("captured")]

\* 199-224: updateOrders returns (or throws); the 201 response.
POST1_UpdateOrders(p, ok) ==
  /\ pc[p] = "updateOrders"
  /\ IF ok
     THEN /\ orders' = [i \in DOMAIN orders |->
                          IF orders[i].id = order[p]
                          THEN [orders[i] EXCEPT !.metadata = CapturedMetadata(p)]
                          ELSE orders[i]]
          /\ res' = Send(p, CreatedPendingResponse(order[p], displayId[p]))
          /\ pc' = [pc EXCEPT ![p] = "done"]
          /\ UNCHANGED paymentError
     ELSE /\ LinkageFailed(p, "updateOrders")
          /\ UNCHANGED orders
  /\ UNCHANGED <<regions, now, body, region, displayId, dupCheck, calls, atStart,
                 paymentCollections, payments, links, order, paymentCollection>>
  /\ UNCHANGED <<tokVars, intentVars>>

NextPay ==
  \/ \E p \in Procs, b \in PayBodies : POST1_Validate(p, b)
  \/ \E p \in Procs, ok \in BOOLEAN, t \in FirstNow..LastNow : POST1_Regions(p, ok, t)
  \/ \E p \in Procs, ok \in BOOLEAN : POST1_CreateOrders(p, ok)
  \/ \E p \in Procs, ok \in BOOLEAN : POST1_CreatePaymentCollections(p, ok)
  \/ \E p \in Procs, ok \in BOOLEAN : POST1_CreatePayments(p, ok)
  \/ \E p \in Procs, ok \in BOOLEAN : POST1_RemoteLink(p, ok)
  \/ \E p \in Procs, ok \in BOOLEAN : POST1_UpdateOrders(p, ok)

\* This handler never lists the orders: it starts from an empty Order Module.
InitPay == Init /\ orders = <<>>

SpecPay == InitPay /\ [][NextPay]_vars

\* ------------------------------------------------ getAccessToken (client.ts)
\* Each call of getAccessToken is a process; specification SpecToken.

\* CacheValid with >= in place of > (a token exactly 60 s from expiry kept).
CacheValidAtBuffer(c, t) ==
  c.present /\ (GreaterThan(c.expiresAt, t + BufferMs) \/ c.expiresAt = Num(t + BufferMs))

\* client.ts 24: cachedToken && cachedToken.expiresAt > Date.now() + 60000
CacheValid(c, t) == c.present /\ GreaterThan(c.expiresAt, t + BufferMs)

\* client.ts 22-39: the call starts, Date.now() returning t; a valid cached token is
\* returned; without the client id or API key the call throws; otherwise the login
\* request is sent.  Calls are numbered in their order of arrival.
getAccessToken_Enter(p, t) ==
  /\ pc[p] = "idle"
  /\ \A q \in Procs : q < p => pc[q] # "idle"
  /\ t \in now..LastNow
  /\ now' = t
  /\ IF CacheValid(cachedToken, t)
     THEN /\ returned' = [returned EXCEPT ![p] = ReturnedToken(cachedToken.token)]
          /\ pc' = [pc EXCEPT ![p] = "done"]
          /\ UNCHANGED logins
     ELSE IF ~configured
          THEN /\ returned' = [returned EXCEPT ![p] = Thrown("Airwallex is not configured")]
               /\ pc' = [pc EXCEPT ![p] = "done"]
               /\ UNCHANGED logins
          ELSE /\ logins' = [logins EXCEPT ![p] = @ + 1]
               /\ pc' = [pc EXCEPT ![p] = "fetch"]
               /\ UNCHANGED returned
  /\ UNCHANGED <<cachedToken, configured, response>>
  /\ UNCHANGED <<regions, orders, body, region, displayId, dupCheck, res, calls, atStart, payVars,
               intentVars>>

\* client.ts 32-47: the login fetch resolves with response r (or rejects); a response
\* that is not ok has its text read, an ok one its JSON.
getAccessToken_Fetch(p, ok, r) ==
  /\ pc[p] = "fetch"
  /\ IF ~ok
     THEN /\ returned' = [returned EXCEPT ![p] = Thrown("fetch failed")]
          /\ pc' = [pc EXCEPT ![p] = "done"]
          /\ UNCHANGED response
     ELSE /\ response' = [response EXCEPT ![p] = r]
          /\ pc' = [pc EXCEPT ![p] = IF r.ok THEN "json" ELSE "text"]
          /\ UNCHANGED returned
  /\ UNCHANGED <<cachedToken, configured, logins, now>>
  /\ UNCHANGED <<regions, orders, body, region, displayId, dupCheck, res, calls, atStart, payVars,
               intentVars>>

\* getAccessToken_Text dropping the cached token when the login is refused.
getAccessToken_TextClearsCache(p) ==
  /\ pc[p] = "text"
  /\ returned' = [returned EXCEPT ![p] = Thrown("Airwallex authentication failed")]
  /\ pc' = [pc EXCEPT ![p] = "done"]
  /\ cachedToken' = NoToken
  /\ UNCHANGED <<configured, response, logins, now>>
  /\ UNCHANGED <<regions, orders, body, region, displayId, dupCheck, res, calls, atStart, payVars,
               intentVars>>

\* client.ts 41-44: response.text() settles; the call throws.
getAccessToken_Text(p) ==
  /\ pc[p] = "text"
  /\ returned' = [returned EXCEPT ![p] = Thrown("Airwallex authentication failed")]
  /\ pc' = [pc EXCEPT ![p] = "done"]
  /\ UNCHANGED <<cachedToken, configured, response, logins, now>>
  /\ UNCHANGED <<regions, orders, body, region, displayId, dupCheck, res, calls, atStart, payVars,
               intentVars>>

\* getAccessToken_Json keeping a cached token that expires later than the response's.
getAccessToken_JsonKeepsLater(p, ok) ==
  /\ pc[p] = "json"
  /\ IF ok
     THEN /\ cachedToken' =
               IF /\ cachedToken.present /\ response[p].expires_at.iso
                  /\ GreaterThan(cachedToken.expiresAt, response[p].expires_at.ms)
               THEN cachedToken
               ELSE Token(response[p].token, GetTime(response[p].expires_at))
          /\ returned' = [returned EXCEPT ![p] = ReturnedToken(response[p].token)]
     ELSE /\ returned' = [returned EXCEPT ![p] = Thrown("invalid json")]
          /\ UNCHANGED cachedToken
  /\ pc' = [pc EXCEPT ![p] = "done"]
  /\ UNCHANGED <<configured, response, logins, now>>
  /\ UNCHANGED <<regions, orders, body, region, displayId, dupCheck, res, calls, atStart, payVars,
               intentVars>>

\* client.ts 46-54: response.json() resolves (or rejects); the token is cached with
\* its expiry and returned.
getAccessToken_Json(p, ok) ==
  /\ pc[p] = "json"
  /\ IF ok
     THEN /\ cachedToken' = Token(response[p].token, GetTime(response[p].expires_at))
          /\ returned' = [returned EXCEPT ![p] = ReturnedToken(response[p].token)]
     ELSE /\ returned' = [returned EXCEPT ![p] = Thrown("invalid json")]
          /\ UNCHANGED cachedToken
  /\ pc' = [pc EXCEPT ![p] = "done"]
  /\ UNCHANGED <<configured, response, logins, now>>
  /\ UNCHANGED <<regions, orders, body, region, displayId, dupCheck, res, calls, atStart, payVars,
               intentVars>>

NextToken ==
  \/ \E p \in Procs, t \in FirstNow..LastNow : getAccessToken_Enter(p, t)
  \/ \E p \in Procs, ok \in BOOLEAN, r \in LoginResponses(now) : getAccessToken_Fetch(p, ok, r)
  \/ \E p \in Procs : getAccessToken_Text(p)
  \/ \E p \in Procs, ok \in BOOLEAN : getAccessToken_Json(p, ok)

\* The server may start unconfigured; a cached token may be left from an earlier call
\* (only a configured server has one): it expires one millisecond beyond the buffer.
InitToken ==
  /\ regions = <<>>
  /\ orders = <<>>
  /\ now = FirstNow
  /\ pc = [p \in Procs |-> "idle"]
  /\ body = [p \in Procs |-> NoBody]
  /\ region = [p \in Procs |-> NoRegion]
  /\ displayId = [p \in Procs |-> <<>>]
  /\ dupCheck = [p \in Procs |-> "none"]
  /\ res = [p \in Procs |-> <<>>]
  /\ calls = [p \in Procs |-> NoCalls]
  /\ atStart = [p \in Procs |-> {}]
  /\ paymentCollections = <<>>
  /\ payments = <<>>
  /\ links = {}
  /\ order = [p \in Procs |-> <<>>]
  /\ paymentCollection = [p \in Procs |-> <<>>]
  /\ paymentError = [p \in Procs |-> "none"]
  /\ configured \in BOOLEAN
  /\ cachedToken \in {NoToken} \cup
       (IF configured THEN {Token("tok_0", Num(FirstNow + BufferMs + 1))} ELSE {})
  /\ response = [p \in Procs |-> NoResponse]
  /\ returned = [p \in Procs |-> NotReturned]
  /\ logins = [p \in Procs |-> 0]
  /\ handler = [p \in Procs |-> "none"]
  /\ sent = [p \in Procs |-> <<>>]
  /\ reply = [p \in Procs |-> [ok |-> FALSE, status |-> 0, text |-> ""]]
  /\ confirmCachedToken = NoToken

SpecToken == InitToken /\ [][NextToken]_vars

\* ------------------------------------- the payment-intent handlers (Airwallex)
\* The requests: req.body of the create and confirm handlers, req.query of the fetch
\* handler.  amount is an optional number, the other fields optional strings.
NoAmount == [present |-> FALSE, v |-> 0]
Amount(n) == [present |-> TRUE, v |-> n]
\* !body.amount: undefined and 0 are falsy.
FalsyAmount(a) == ~a.present \/ a.v = 0
CreateBodies ==
  {[amount |-> a, currency |-> c] :
     a \in {NoAmount, Amount(0), Amount(1000)}, c \in {Absent, Given("usd")}}
ConfirmBodies == {[payment_intent_id |-> i] : i \in {Absent, Given("int_1")}}
FetchQueries == {[id |-> i] : i \in {Absent, Given("int_1")}}

\* What the gateway answers to a login request at time t: status, body text, and for
\* an OK reply the token and its expiry.
LoginReplies(t) ==
  {[ok |-> FALSE, status |-> 401, text |-> "unauthorized", token |-> "",
    expires_at |-> NotADate],
   [ok |-> TRUE, status |-> 201, text |-> "", token |-> "tok_1",
    expires_at |-> DateString(t + BufferMs + 1)]}
NoLoginReply ==
  [ok |-> FALSE, status |-> 0, text |-> "", token |-> "", expires_at |-> NotADate]
\* What the gateway answers to a payment-intent request.
NoReply == [ok |-> FALSE, status |-> 0, text |-> ""]
IntentReplies ==
  {[ok |-> TRUE, status |-> 200, text |-> "intent"],
   [ok |-> FALSE, status |-> 400, text |-> "invalid"],
   [ok |-> FALSE, status |-> 404, text |-> "not found"]}

\* part_000 12 and client.ts 178: each route module has a `cachedToken` of its own;
\* the create and fetch handlers share one, the confirm handler has the other.
CacheOf(h) == IF h = "confirm" THEN confirmCachedToken ELSE cachedToken

\* part_000 58-62, 130-134; client.ts 228-232: the server is not configured.
NotConfiguredResponse(h) ==
  ErrorResponse(500,
    IF h = "create"
    THEN "Airwallex is not configured. Please set AIRWALLEX_CLIENT_ID and AIRWALLEX_API_KEY."
    ELSE "Airwallex is not configured")

\* part_000 66-70, 126-128; client.ts 236-240: a required field is missing.
MissingFieldResponse(h) ==
  ErrorResponse(400,
    CASE h = "create" -> "Missing required fields: amount and currency are required"
      [] h = "confirm" -> "Missing required field: payment_intent_id"
      [] h = "fetch" -> "Payment intent ID is required")

\* PassedOn answering 502 whatever status the gateway sent.
PassedOnBadGateway(h, g) ==
  ErrorResponse(502,
    CASE h = "create" -> <<"Failed to create payment intent: ", g.text>>
      [] h = "confirm" -> <<"Failed to confirm payment: ", g.text>>
      [] h = "fetch" -> g.text)

\* part_000 96-98, 147; client.ts 276-278: res.status(response.status).json({ error })
PassedOn(h, g) ==
  ErrorResponse(g.status,
    CASE h = "create" -> <<"Failed to create payment intent: ", g.text>>
      [] h = "confirm" -> <<"Failed to confirm payment: ", g.text>>
      [] h = "fetch" -> g.text)

\* part_000 104-111, 151; client.ts 283-288: res.json(...), status 200.
IntentResponse(g) == [status |-> 200, success |-> TRUE, body |-> g.text]

\* The request a handler sends for the payment intent.
IntentRequest(h) ==
  CASE h = "create" -> "POST /pa/payment_intents/create"
    [] h = "confirm" -> "POST /pa/payment_intents/:id/confirm"
    [] h = "fetch" -> "GET /pa/payment_intents/:id"

\* The handler answers r and returns.
Answer(p, r) ==
  /\ res' = Send(p, r)
  /\ pc' = [pc EXCEPT ![p] = "done"]

\* part_000 15-28, client.ts 180-193: the handler calls getAccessToken, Date.now()
\* returning t: a valid cached token is returned, otherwise the login request is sent.
CallGetAccessToken(p, h, t) ==
  IF CacheValid(CacheOf(h), t)
  THEN /\ returned' = [returned EXCEPT ![p] = ReturnedToken(CacheOf(h).token)]
       /\ pc' = [pc EXCEPT ![p] = "i_token"]
       /\ UNCHANGED sent
  ELSE /\ sent' = [sent EXCEPT ![p] = Append(@, "POST /authentication/login")]
       /\ pc' = [pc EXCEPT ![p] = "i_login"]
       /\ UNCHANGED returned

\* A request arrives at handler h with body (or query) b while Date.now() is t.
\* Invocations are numbered in their order of arrival.
Arrives(p, h, b, t) ==
  /\ pc[p] = "idle"
  /\ \A q \in Procs : q < p => pc[q] # "idle"
  /\ t \in now..LastNow
  /\ now' = t
  /\ handler' = [handler EXCEPT ![p] = h]
  /\ body' = [body EXCEPT ![p] = b]
  /\ UNCHANGED <<cachedToken, confirmCachedToken, configured, response, logins, reply>>
  /\ UNCHANGED <<regions, orders, region, displayId, dupCheck, calls, atStart, payVars>>

\* part_000 56-72: POST, create a payment intent.
POST_CreatePaymentIntent(p, b, t) ==
  /\ Arrives(p, "create", b, t)
  /\ IF ~configured
     THEN Answer(p, NotConfiguredResponse("create")) /\ UNCHANGED <<sent, returned>>
     ELSE IF FalsyAmount(b.amount) \/ ~TruthyStr(b.currency)
          THEN Answer(p, MissingFieldResponse("create")) /\ UNCHANGED <<sent, returned>>
          ELSE CallGetAccessToken(p, "create", t) /\ UNCHANGED res

\* part_000 122-136: GET, fetch a payment intent; the id is tested first.
GET_PaymentIntent(p, b, t) ==
  /\ Arrives(p, "fetch", b, t)
  /\ IF ~TruthyStr(b.id)
     THEN Answer(p, MissingFieldResponse("fetch")) /\ UNCHANGED <<sent, returned>>
     ELSE IF ~configured
          THEN Answer(p, NotConfiguredResponse("fetch")) /\ UNCHANGED <<sent, returned>>
          ELSE CallGetAccessToken(p, "fetch", t) /\ UNCHANGED res

\* client.ts 226-242: POST, confirm a payment intent.
POST_ConfirmPayment(p, b, t) ==
  /\ Arrives(p, "confirm", b, t)
  /\ IF ~configured
     THEN Answer(p, NotConfiguredResponse("confirm")) /\ UNCHANGED <<sent, returned>>
     ELSE IF ~TruthyStr(b.payment_intent_id)
          THEN Answer(p, MissingFieldResponse("confirm")) /\ UNCHANGED <<sent, returned>>
          ELSE CallGetAccessToken(p, "confirm", t) /\ UNCHANGED res

\* What an intent step leaves alone besides what it names.
IntentFrame ==
  /\ UNCHANGED <<handler, body, now, configured, logins>>
  /\ UNCHANGED <<regions, orders, region, displayId, dupCheck, calls, atStart, payVars>>

\* part_000 21-30: the login fetch resolves with reply r, or rejects; the rejection
\* reaches the handler's catch (part_000 113-118), which answers 500.
Intent_Login(p, ok, r) ==
  /\ pc[p] = "i_login"
  /\ IF ~ok
     THEN Answer(p, CaughtResponse("fetch failed")) /\ UNCHANGED response
     ELSE /\ response' = [response EXCEPT ![p] = r]
          /\ pc' = [pc EXCEPT ![p] = IF r.ok THEN "i_loginjson" ELSE "i_logintext"]
          /\ UNCHANGED res
  /\ UNCHANGED <<cachedToken, confirmCachedToken, returned, sent, reply>>
  /\ IntentFrame

\* part_000 30-33, client.ts 195-198: the text of a login reply that is not OK is read and
\* getAccessToken throws; the handler's catch answers 500 with the message.
Intent_LoginText(p) ==
  /\ pc[p] = "i_logintext"
  /\ Answer(p, CaughtResponse(<<"Airwallex authentication failed: ", response[p].text>>))
  /\ UNCHANGED <<cachedToken, confirmCachedToken, response, returned, sent, reply>>
  /\ IntentFrame

\* part_000 35-43, client.ts 200-207: the JSON of an OK login reply is read; the token is cached in the
\* handler's module and returned.  A body that is no JSON makes the call throw.
Intent_LoginJson(p, ok) ==
  /\ pc[p] = "i_loginjson"
  /\ IF ok
     THEN /\ IF handler[p] = "confirm"
             THEN /\ confirmCachedToken' =
                       Token(response[p].token, GetTime(response[p].expires_at))
                  /\ UNCHANGED cachedToken
             ELSE /\ cachedToken' =
                       Token(response[p].token, GetTime(response[p].expires_at))
                  /\ UNCHANGED confirmCachedToken
          /\ returned' = [returned EXCEPT ![p] = ReturnedToken(response[p].token)]
          /\ pc' = [pc EXCEPT ![p] = "i_token"]
          /\ UNCHANGED res
     ELSE /\ Answer(p, CaughtResponse("invalid json"))
          /\ UNCHANGED <<cachedToken, confirmCachedToken, returned>>
  /\ UNCHANGED <<response, sent, reply>>
  /\ IntentFrame

\* part_000 72-91, 136-143; client.ts 242-271: the handler resumes with the token and
\* sends the payment-intent request.
Intent_Send(p) ==
  /\ pc[p] = "i_token"
  /\ sent' = [sent EXCEPT ![p] = Append(@, IntentRequest(handler[p]))]
  /\ pc' = [pc EXCEPT ![p] = "i_fetch"]
  /\ UNCHANGED <<cachedToken, confirmCachedToken, response, returned, res, reply>>
  /\ IntentFrame

\* part_000 84-94, 138-146; client.ts 261-274: the payment-intent fetch resolves with
\* reply g, or rejects (500).
Intent_Reply(p, ok, g) ==
  /\ pc[p] = "i_fetch"
  /\ IF ~ok
     THEN Answer(p, CaughtResponse("fetch failed")) /\ UNCHANGED reply
     ELSE /\ reply' = [reply EXCEPT ![p] = g]
          /\ pc' = [pc EXCEPT ![p] = IF g.ok THEN "i_json" ELSE "i_text"]
          /\ UNCHANGED res
  /\ UNCHANGED <<cachedToken, confirmCachedToken, response, returned, sent>>
  /\ IntentFrame

\* part_000 93-99, 145-148; client.ts 273-279: the text of a reply that is not OK is
\* read and sent on with the reply's status.
Intent_Text(p) ==
  /\ pc[p] = "i_text"
  /\ Answer(p, PassedOn(handler[p], reply[p]))
  /\ UNCHANGED <<cachedToken, confirmCachedToken, response, returned, sent, reply>>
  /\ IntentFrame

\* part_000 101-111, 150-151; client.ts 281-288: the JSON of an OK reply is read and
\* answered; a body that is no JSON reaches the catch (500).
Intent_Json(p, ok) ==
  /\ pc[p] = "i_json"
  /\ Answer(p, IF ok THEN IntentResponse(reply[p]) ELSE CaughtResponse("invalid json"))
  /\ UNCHANGED <<cachedToken, confirmCachedToken, response, returned, sent, reply>>
  /\ IntentFrame

NextIntent ==
  \/ \E p \in Procs, b \in CreateBodies, t \in FirstNow..LastNow :
       POST_CreatePaymentIntent(p, b, t)
  \/ \E p \in Procs, b \in FetchQueries, t \in FirstNow..LastNow : GET_PaymentIntent(p, b, t)
  \/ \E p \in Procs, b \in ConfirmBodies, t \in FirstNow..LastNow :
       POST_ConfirmPayment(p, b, t)
  \/ \E p \in Procs, ok \in BOOLEAN, r \in LoginReplies(now) : Intent_Login(p, ok, r)
  \/ \E p \in Procs : Intent_LoginText(p)
  \/ \E p \in Procs, ok \in BOOLEAN : Intent_LoginJson(p, ok)
  \/ \E p \in Procs : Intent_Send(p)
  \/ \E p \in Procs, ok \in BOOLEAN, g \in IntentReplies : Intent_Reply(p, ok, g)
  \/ \E p \in Procs : Intent_Text(p)
  \/ \E p \in Procs, ok \in BOOLEAN : Intent_Json(p, ok)

\* The server may start unconfigured; both token caches start empty.
InitIntent ==
  /\ regions = <<>>
  /\ orders = <<>>
  /\ now = FirstNow
  /\ pc = [p \in Procs |-> "idle"]
  /\ body = [p \in Procs |-> NoBody]
  /\ region = [p \in Procs |-> NoRegion]
  /\ displayId = [p \in Procs |-> <<>>]
  /\ dupCheck = [p \in Procs |-> "none"]
  /\ res = [p \in Procs |-> <<>>]
  /\ calls = [p \in Procs |-> NoCalls]
  /\ atStart = [p \in Procs |-> {}]
  /\ paymentCollections = <<>>
  /\ payments = <<>>
  /\ links = {}
  /\ order = [p \in Procs |-> <<>>]
  /\ paymentCollection = [p \in Procs |-> <<>>]
  /\ paymentError = [p \in Procs |-> "none"]
  /\ configured \in BOOLEAN
  /\ cachedToken = NoToken
  /\ response = [p \in Procs |-> NoLoginReply]
  /\ returned = [p \in Procs |-> NotReturned]
  /\ logins = [p \in Procs |-> 0]
  /\ handler = [p \in Procs |-> "none"]
  /\ sent = [p \in Procs |-> <<>>]
  /\ reply = [p \in Procs |-> NoReply]
  /\ confirmCachedToken = NoToken

SpecIntent == InitIntent /\ [][NextIntent]_vars

\* ================================================================ claims
\* What the claims speak of, stated apart from the handler's own operators.
Started(p) == pc[p] # "idle"
Finished(p) == pc[p] = "done"
MerchantId(p) == body[p].merchant_order_id
HasMerchantId(p) == MerchantId(p).present /\ MerchantId(p).v # <<>>
MissingRequired(b) ==
  \/ ~b.email.present \/ b.email.v = ""
  \/ ~b.items.present \/ b.items.v = <<>>
  \/ ~b.shipping_address.present
StatusOf(p) == IF res[p] = <<>> THEN 0 ELSE res[p][Len(res[p])].status
OrdersBy(p) == {i \in DOMAIN orders : orders[i].by = p}
OrdersWithMerchantId(m) ==
  {i \in DOMAIN orders : orders[i].metadata.present /\ orders[i].metadata.merchant_order_id = m}
ListingThrew(p) == dupCheck[p] = "threw"
ListingReturned(p) == dupCheck[p] \in {"found", "absent"}
LookupThrew(p) == res[p] # <<>> /\ res[p][1].error = "listRegions failed"

\* C1: for every non-empty merchant_order_id, under every interleaving of the
\* invocations' suspension points (no listing call failing), the Order Store holds
\* at most one order whose metadata.merchant_order_id is that id.
C1_AtMostOneOrderPerMerchantId ==
  (\A p \in Procs : ~ListingThrew(p)) =>
    \A m \in Mids : (m.present /\ m.v # <<>>) => Cardinality(OrdersWithMerchantId(m)) <= 1

\* C2: when all the invocations sharing a non-empty merchant_order_id have completed
\* with a success response (none of their listing calls failing), exactly one of
\* them reported a newly created order (201); the others reported the existing one.
C2_ExactlyOneNewOrder ==
  \A m \in Mids :
    LET S == {p \in Procs : Started(p) /\ MerchantId(p) = m /\ ~MissingRequired(body[p])} IN
    ( /\ m.present /\ m.v # <<>>
      /\ S # {}
      /\ \A p \in S : Finished(p) /\ StatusOf(p) \in {200, 201} /\ ~ListingThrew(p) )
    => Cardinality({p \in S : StatusOf(p) = 201}) = 1

\* o.metadata?.merchant_order_id
MetadataMerchantId(o) ==
  IF o.metadata.present THEN o.metadata.merchant_order_id ELSE [present |-> FALSE, v |-> <<>>]

\* The second of two sequential calls with the same request: q had completed with 201
\* when p arrived with the same body.
Repeats(p, q) ==
  /\ q \in atStart[p]
  /\ body[q] = body[p]
  /\ StatusOf(q) = 201
\* p answered 200 with the identity of a stored order whose metadata.merchant_order_id
\* equals (===) the request's,
\* without calling createOrders and without creating an order.
AnsweredDuplicate(p) ==
  /\ Len(res[p]) = 1
  /\ res[p][1].status = 200 /\ res[p][1].success /\ res[p][1].error = ""
  /\ \E i \in DOMAIN orders :
       /\ orders[i].id = res[p][1].id
       /\ MetadataMerchantId(orders[i]) = MerchantId(p)
  /\ calls[p].createOrders = 0
  /\ OrdersBy(p) = {}

C4_InFlightRejected ==
  \A p, q \in Procs :
    ( /\ q < p /\ Started(p) /\ q \notin atStart[p]
      /\ ~MissingRequired(body[p]) /\ ~MissingRequired(body[q])
      /\ HasMerchantId(p) /\ MerchantId(q) = MerchantId(p) )
    => /\ calls[p] = NoCalls
       /\ Finished(p) => StatusOf(p) = 409

\* C5: a request with a missing email, an empty or absent item list or a missing
\* shipping address is answered 400 at once: one response, no region lookup, no
\* Order Store call, no order created by it.
C5_InvalidRequestNoSideEffect ==
  \A p \in Procs :
    (Started(p) /\ MissingRequired(body[p])) =>
      /\ Finished(p)
      /\ Len(res[p]) = 1 /\ res[p][1].status = 400 /\ ~res[p][1].success
      /\ calls[p] = NoCalls
      /\ OrdersBy(p) = {}

C5_Witness ==
  \E p, q \in Procs :
    /\ Started(p) /\ ~body[p].shipping_address.present /\ StatusOf(p) = 400
    /\ Started(q) /\ body[q].items = EmptyItems /\ StatusOf(q) = 400

\* C7 (as stated): with an empty region list, a valid call whose lookup returned
\* is answered 500 and creates no order.
C7_Original ==
  \A p \in Procs :
    (regions = <<>> /\ Finished(p) /\ ~MissingRequired(body[p]) /\ ~LookupThrew(p)) =>
      /\ StatusOf(p) = 500
      /\ OrdersBy(p) = {}

\* C7 (amended): with an empty region list, a valid call whose lookup returned is
\* answered 400 with an error body, calls neither listAndCountOrders nor
\* createOrders, and creates no order.
C7_NoRegionAvailable ==
  \A p \in Procs :
    (regions = <<>> /\ Finished(p) /\ ~MissingRequired(body[p]) /\ ~LookupThrew(p)) =>
      /\ Len(res[p]) = 1 /\ res[p][1].status = 400 /\ ~res[p][1].success
      /\ res[p][1].error # ""
      /\ calls[p].listAndCountOrders = 0 /\ calls[p].createOrders = 0
      /\ OrdersBy(p) = {}

C7_Witness ==
  \E p \in Procs :
    regions = <<>> /\ Finished(p) /\ ~MissingRequired(body[p]) /\ ~LookupThrew(p)

\* No region's country list holds the country code cc (compared in lower case).
NoRegionServes(cc) ==
  \A i \in DOMAIN regions : \A k \in DOMAIN regions[i].countries :
    toLowerCase(regions[i].countries[k]) # toLowerCase(cc)

\* C8: an order created for a shipping country that no region's country list holds
\* has the region_id of the first region of the list.
C8_RegionFallback ==
  \A i \in DOMAIN orders :
    (orders[i].by \in Procs /\ NoRegionServes(body[orders[i].by].shipping_address.country_code))
    => orders[i].region_id = regions[1].id

C8_Witness ==
  \E i \in DOMAIN orders :
    /\ orders[i].by \in Procs
    /\ body[orders[i].by].shipping_address.country_code = <<"j", "p">>
    /\ SubSeq(regions, 1, 2) = <<EU, US>>
    /\ orders[i].region_id = "reg_eu"

\* Round-half-up of (amount x 100), amounts in thousandths: 19995 (19.995) gives
\* 2000, held as 2000000.
RoundHalfUpMinor(a) == ((a * 100 + 500) \div 1000) * 1000

\* C9 (as stated): every stored line item's unit_price and the stored shipping
\* method amount are round-half-up of (amount x 100).
C9_Original ==
  \A i \in DOMAIN orders :
    orders[i].by \in Procs =>
      LET b == body[orders[i].by] IN
      /\ \A k \in DOMAIN orders[i].items :
           orders[i].items[k].unit_price = RoundHalfUpMinor(b.items.v[k].unit_price)
      /\ orders[i].shipping_methods[1].amount = RoundHalfUpMinor(b.shipping_total)

\* C9 (amended): every stored line item's unit_price and the stored shipping method
\* amount are the request's amounts themselves, by one identical rule: unchanged,
\* neither multiplied by 100 nor rounded (19.995 is stored as 19.995).
C9_AmountsStoredUnchanged ==
  \A i \in DOMAIN orders :
    orders[i].by \in Procs =>
      LET b == body[orders[i].by] IN
      /\ Len(orders[i].items) = Len(b.items.v)
      /\ \A k \in DOMAIN orders[i].items :
           orders[i].items[k].unit_price = b.items.v[k].unit_price
      /\ orders[i].shipping_methods[1].amount = b.shipping_total

C9_Witness ==
  \E i \in DOMAIN orders :
    /\ orders[i].by \in Procs
    /\ orders[i].items[1].unit_price = 19995
    /\ orders[i].shipping_methods[1].amount = 4995

Prefix31N == <<"3", "1", "N", "-">>
\* s is "31N-" followed by the digits of t.
Is31NOf(s, t) ==
  /\ Len(s) > Len(Prefix31N)
  /\ SubSeq(s, 1, Len(Prefix31N)) = Prefix31N
  /\ IsDigits(SubSeq(s, Len(Prefix31N) + 1, Len(s)))
  /\ SubSeq(s, Len(Prefix31N) + 1, Len(s)) = Digits(t)

\* C10: the display id an invocation computes is the merchant_order_id when that is
\* non-empty and otherwise "31N-" followed by the digits of the value Date.now()
\* returns at that moment; the order it creates carries this display id in its metadata and the
\* 201 response returns it.
C10_DisplayIdDefaulting ==
  [][\A p \in Procs :
       /\ (pc[p] = "listRegions" /\ pc'[p] = "listAndCountOrders") =>
            IF HasMerchantId(p)
            THEN displayId'[p] = MerchantId(p).v
            ELSE Is31NOf(displayId'[p], now')
       /\ (pc[p] = "createOrders" /\ pc'[p] = "done" /\ Len(orders') = Len(orders) + 1) =>
            /\ orders'[Len(orders')].metadata.display_id = [present |-> TRUE, v |-> displayId[p]]
            /\ res'[p][Len(res'[p])].status = 201
            /\ res'[p][Len(res'[p])].display_id = displayId[p]]_vars

C10_Witness ==
  \E i \in DOMAIN orders :
    /\ orders[i].by \in Procs
    /\ ~HasMerchantId(orders[i].by)
    /\ orders[i].metadata.display_id.v = <<"3", "1", "N", "-", "1", "0">>
    /\ res[orders[i].by][1].display_id = <<"3", "1", "N", "-", "1", "0">>

\* C6: when a payment linkage step failed after the order was created (payment
\* collection, captured payment, remote link or the metadata update), the invocation
\* still answers 201 with the order's id and display id and no error, it sends no
\* other response, and the created order is still in the store as it was created.
C6_LinkageFailureStillSuccess ==
  \A p \in Procs :
    (Finished(p) /\ paymentError[p] # "none") =>
      /\ Len(res[p]) = 1
      /\ res[p][1].status = 201 /\ res[p][1].success /\ res[p][1].error = ""
      /\ res[p][1].display_id = displayId[p]
      /\ \E i \in DOMAIN orders :
           /\ orders[i].by = p
           /\ orders[i].id = res[p][1].id
           /\ orders[i].metadata.display_id = [present |-> TRUE, v |-> displayId[p]]
           /\ ~orders[i].metadata.payment_status.present

C6_Witness ==
  \E p, q \in Procs :
    /\ Finished(p) /\ paymentError[p] = "createPaymentCollections"
    /\ Finished(q) /\ paymentError[q] = "updateOrders"
    /\ Len(orders) >= 2

\* The createOrders call of p threw: the call was issued, p has finished, and its local
\* `order` was never assigned.
CreateOrdersThrew(p) == Finished(p) /\ calls[p].createOrders = 1 /\ order[p] = <<>>

\* C11: when createOrders throws, the invocation answers 500 with an error body (its
\* only response), no order of this request is in the store, and no payment linkage
\* call (payment collection, payment, remote link, metadata update) was issued.
C11_CreateFailurePropagates ==
  \A p \in Procs :
    CreateOrdersThrew(p) =>
      /\ Len(res[p]) = 1
      /\ res[p][1].status = 500 /\ ~res[p][1].success /\ res[p][1].error # ""
      /\ OrdersBy(p) = {}
      /\ calls[p].createPaymentCollections = 0 /\ calls[p].createPayments = 0
      /\ calls[p].remoteLinkCreate = 0 /\ calls[p].updateOrders = 0
      /\ \A i \in DOMAIN paymentCollections : paymentCollections[i].order_id # <<>>

C11_Witness ==
  \E p, q \in Procs :
    /\ CreateOrdersThrew(p) /\ StatusOf(p) = 500
    /\ Finished(q) /\ OrdersBy(q) # {} /\ calls[q].updateOrders = 1
\* C12: every success response (201 new order, 200 duplicate) carries the order's
\* store id and its display id, both non-empty, and no error; every other response
\* is an error body {error: string} with no order in it.
C12_SuccessHasBothIds ==
  \A p \in Procs : \A k \in DOMAIN res[p] :
    IF res[p][k].status \in {200, 201}
    THEN /\ res[p][k].success
         /\ res[p][k].id # <<>> /\ res[p][k].display_id # <<>>
         /\ res[p][k].error = ""
         /\ \E i \in DOMAIN orders : orders[i].id = res[p][k].id
    ELSE /\ ~res[p][k].success
         /\ res[p][k].error # ""
         /\ res[p][k].id = <<>> /\ res[p][k].display_id = <<>>

C12_Witness ==
  \E p, q \in Procs :
    /\ StatusOf(p) = 200 /\ res[p][1].display_id = res[p][1].id
    /\ StatusOf(q) = 201 /\ res[q][1].display_id # res[q][1].id
\* p is a valid request that arrived while an earlier invocation for the same
\* non-empty merchant_order_id had not completed.
InFlightDuplicate(p) ==
  /\ Started(p) /\ ~MissingRequired(body[p]) /\ HasMerchantId(p)
  /\ \E q \in Procs :
       /\ q < p /\ q \notin atStart[p]
       /\ ~MissingRequired(body[q]) /\ MerchantId(q) = MerchantId(p)

\* C13: every error response has status 400, 409 or 500 and a body {error: string};
\* a validation failure is answered 400, a duplicate in-flight submission 409, and
\* a thrown error of a module call 500.
C13_ErrorStatusMapping ==
  \A p \in Procs :
    Finished(p) =>
      /\ \A k \in DOMAIN res[p] :
           ~res[p][k].success => res[p][k].status \in {400, 409, 500} /\ res[p][k].error # ""
      /\ MissingRequired(body[p]) => StatusOf(p) = 400
      /\ InFlightDuplicate(p) => StatusOf(p) = 409 /\ ~res[p][1].success
      /\ (LookupThrew(p) \/ (calls[p].createOrders = 1 /\ OrdersBy(p) = {})) => StatusOf(p) = 500
\* The cached credential c exists and expires more than 60 seconds after time t.
MoreThanAMinuteLeft(c, t) == c.present /\ ~c.expiresAt.nan /\ c.expiresAt.ms - t > 60 * 1000
\* The getAccessToken call p starts in this step.
CallStarts(p) == pc[p] = "idle" /\ pc'[p] # "idle"
\* The call p returns the cached credential in its first step, sending no login request.
ReturnsCached(p) ==
  /\ pc'[p] = "done"
  /\ returned'[p].kind = "token" /\ returned'[p].v = cachedToken.token
  /\ logins'[p] = 0
  /\ cachedToken' = cachedToken
\* The call p sends a login request.
SendsLogin(p) == logins'[p] = 1 /\ pc'[p] = "fetch" /\ returned'[p].kind = "none"
\* The call p completes a successful login in this step: it returns the response's
\* token, and the cache holds that token and the time of its expires_at.
LoginCached(p) ==
  /\ returned'[p].v = response[p].token
  /\ cachedToken'.present /\ cachedToken'.token = response[p].token
  /\ IF response[p].expires_at.iso
     THEN cachedToken'.expiresAt = [nan |-> FALSE, ms |-> response[p].expires_at.ms]
     ELSE cachedToken'.expiresAt.nan

\* C14 (as stated): a call returns the cached credential without a login request
\* exactly when a cached credential with more than 60 seconds left exists; any other
\* call sends a login request; a successful login leaves the new token and its
\* expiry in the cache.
C14_Original ==
  [][\A p \in Procs :
       /\ CallStarts(p) =>
            IF MoreThanAMinuteLeft(cachedToken, now') THEN ReturnsCached(p) ELSE SendsLogin(p)
       /\ (pc[p] = "json" /\ returned'[p].kind = "token") => LoginCached(p)]_vars

\* C14 (amended): as stated when the client id and API key are set; without them a
\* call that finds no cached credential with more than 60 seconds left throws and
\* sends no login request.
C14_TokenCache ==
  [][\A p \in Procs :
       /\ CallStarts(p) =>
            IF MoreThanAMinuteLeft(cachedToken, now') THEN ReturnsCached(p)
            ELSE IF configured THEN SendsLogin(p)
            ELSE /\ pc'[p] = "done" /\ returned'[p].kind = "error"
                 /\ logins'[p] = 0 /\ cachedToken' = cachedToken
       /\ (pc[p] = "json" /\ returned'[p].kind = "token") => LoginCached(p)]_vars

C14_Witness ==
  \E p, q \in Procs :
    /\ pc[p] = "done" /\ returned[p].kind = "token" /\ logins[p] = 0
    /\ pc[q] = "done" /\ returned[q].kind = "token" /\ logins[q] = 1
    /\ cachedToken.token = returned[q].v /\ returned[q].v # returned[p].v
\* The listing of p returned and held no order with p's merchant_order_id: p passed
\* the duplicate check.
PassedDuplicateCheck(p) == dupCheck[p] = "absent"

\* C16: the check that a merchant_order_id is absent and the step that claims it are
\* atomic: two invocations for the same non-empty merchant_order_id never both pass
\* the duplicate check.
C16_CheckAndClaimAtomic ==
  \A p, q \in Procs :
    (p # q /\ HasMerchantId(p) /\ MerchantId(q) = MerchantId(p))
    => ~(PassedDuplicateCheck(p) /\ PassedDuplicateCheck(q))

\* C17: the idempotency check precedes region resolution: a valid call whose
\* merchant_order_id already has a stored order is answered 200 with that order's id
\* even when the region list is empty (its region lookup not failing).
C17_DuplicateBeforeRegion ==
  \A p \in Procs :
    ( /\ Finished(p) /\ ~MissingRequired(body[p]) /\ HasMerchantId(p)
      /\ regions = <<>> /\ ~LookupThrew(p)
      /\ OrdersWithMerchantId(MerchantId(p)) # {} )
    => /\ StatusOf(p) = 200
       /\ \E i \in OrdersWithMerchantId(MerchantId(p)) : orders[i].id = res[p][1].id
\* The country list of region r holds the country code cc, compared in lower case.
RegionHolds(r, cc) ==
  \E k \in DOMAIN r.countries : toLowerCase(r.countries[k]) = toLowerCase(cc)
\* The position of the first region of the list that holds cc.
FirstHolding(cc) ==
  CHOOSE k \in DOMAIN regions :
    RegionHolds(regions[k], cc) /\ \A j \in 1..(k - 1) : ~RegionHolds(regions[j], cc)

\* C18: an order created for a shipping country that some region's country list
\* holds (compared case-insensitively) has the region_id of the first such region in
\* list order, which is the region the invocation resolved.
C18_RegionMatch ==
  \A i \in DOMAIN orders :
    LET p == orders[i].by IN
    (p \in Procs /\ ~NoRegionServes(body[p].shipping_address.country_code)) =>
      /\ region[p] = regions[FirstHolding(body[p].shipping_address.country_code)]
      /\ orders[i].region_id = regions[FirstHolding(body[p].shipping_address.country_code)].id

C18_Witness ==
  \E i \in DOMAIN orders :
    /\ orders[i].by \in Procs
    /\ body[orders[i].by].shipping_address.country_code = <<"U", "S">>
    /\ RegionHolds(regions[2], <<"U", "S">>) /\ RegionHolds(regions[3], <<"U", "S">>)
    /\ orders[i].region_id = "reg_us"
\* C19: a created order has one line item per request line item, in the same order,
\* each with the request's title and quantity, the seven fulfilment and return
\* counters 0, and metadata holding the item's SKU ("" when absent) and its
\* zero-based position in the request.
C19_LineItemNormalization ==
  \A i \in DOMAIN orders :
    orders[i].by \in Procs =>
      LET given == body[orders[i].by].items.v
          stored == orders[i].items IN
      /\ Len(stored) = Len(given)
      /\ \A k \in DOMAIN stored :
           /\ stored[k].title = given[k].title
           /\ stored[k].quantity = given[k].quantity
           /\ stored[k].fulfilled_quantity = 0 /\ stored[k].delivered_quantity = 0
           /\ stored[k].shipped_quantity = 0 /\ stored[k].return_requested_quantity = 0
           /\ stored[k].return_received_quantity = 0
           /\ stored[k].return_dismissed_quantity = 0
           /\ stored[k].written_off_quantity = 0
           /\ stored[k].metadata.variant_sku =
                (IF given[k].variant_sku.present THEN given[k].variant_sku.v ELSE "")
           /\ stored[k].metadata.index = k - 1

C19_Witness ==
  \E i \in DOMAIN orders :
    /\ orders[i].by \in Procs
    /\ Len(orders[i].items) = 2
    /\ orders[i].items[1].metadata = [variant_sku |-> "SKU-1", index |-> 0]
    /\ orders[i].items[2].metadata = [variant_sku |-> "", index |-> 1]
    /\ orders[i].items[2].title = "Cap" /\ orders[i].items[2].quantity = 1
\* The optional text o as the store must hold it: the text, or "" when it is absent.
TextOrEmpty(o) == [present |-> TRUE, v |-> IF o.present THEN o.v ELSE ""]

\* C20: every created order has its billing address equal to its shipping address,
\* address_2 and phone present as strings ("" when the request leaves them out),
\* exactly one shipping method {name, amount} from the request, the region_id of the
\* resolved region, and metadata holding the request's merchant_order_id and
\* payment_intent_id, the display id and the payment provider tag "airwallex".
C20_CreatedOrderShape ==
  \A i \in DOMAIN orders :
    LET p == orders[i].by IN
    p \in Procs =>
      LET b == body[p]
          o == orders[i] IN
      /\ o.billing_address = o.shipping_address
      /\ o.shipping_address.address_2 = TextOrEmpty(b.shipping_address.address_2)
      /\ o.shipping_address.phone = TextOrEmpty(b.shipping_address.phone)
      /\ Len(o.shipping_methods) = 1
      /\ o.shipping_methods[1] = [name |-> b.shipping_method, amount |-> b.shipping_total]
      /\ o.region_id = region[p].id
      /\ \E k \in DOMAIN regions : regions[k].id = o.region_id
      /\ o.metadata.present
      /\ o.metadata.merchant_order_id = b.merchant_order_id
      /\ o.metadata.payment_intent_id = b.payment_intent_id
      /\ o.metadata.display_id = [present |-> TRUE, v |-> displayId[p]]
      /\ o.metadata.payment_provider = "airwallex"

C20_Witness ==
  \E i, j \in DOMAIN orders :
    /\ orders[i].by \in Procs /\ orders[j].by \in Procs
    /\ ~body[orders[i].by].shipping_address.address_2.present
    /\ orders[i].billing_address.address_2 = [present |-> TRUE, v |-> ""]
    /\ orders[j].billing_address.phone = [present |-> TRUE, v |-> "555"]
\* The payment collections made for order o.
CollectionsOf(o) == {c \in DOMAIN paymentCollections : paymentCollections[c].order_id = o.id}
\* A captured payment is attached to collection c and carries payment intent id pi.
Paid(c, pi) ==
  \E k \in DOMAIN payments :
    /\ payments[k].payment_collection_id = paymentCollections[c].id
    /\ payments[k].captured
    /\ payments[k].payment_intent_id = pi
\* Collection c is linked to order o.
Linked(c, o) ==
  [order_id |-> o.id, payment_collection_id |-> paymentCollections[c].id] \in links

\* C21: the payment linkage steps happen in order: every payment collection of an
\* order is for the request's total and currency; a collection is linked to the order
\* only when a captured payment with the request's payment_intent_id is attached to
\* it; the order's metadata carries payment_status "captured" only with the id of a
\* collection already linked to it; and when the linkage succeeded all four are there.
C21_LinkageOrder ==
  \A i \in DOMAIN orders :
    LET o == orders[i]
        p == orders[i].by IN
    p \in Procs =>
      /\ \A c \in CollectionsOf(o) :
           /\ paymentCollections[c].amount = body[p].total
           /\ paymentCollections[c].currency_code = toLowerCase(body[p].currency_code)
           /\ Linked(c, o) => Paid(c, body[p].payment_intent_id)
      /\ o.metadata.payment_status.present =>
           /\ o.metadata.payment_status.v = "captured"
           /\ \E c \in CollectionsOf(o) :
                /\ Linked(c, o)
                /\ o.metadata.payment_collection_id =
                     [present |-> TRUE, v |-> paymentCollections[c].id]
      /\ (Finished(p) /\ paymentError[p] = "none") =>
           /\ o.metadata.payment_status.present
           /\ Cardinality(CollectionsOf(o)) = 1
  /\ \A k \in DOMAIN payments :
       \E c \in DOMAIN paymentCollections :
         paymentCollections[c].id = payments[k].payment_collection_id

C21_Witness ==
  \E i \in DOMAIN orders :
    /\ orders[i].by \in Procs
    /\ Finished(orders[i].by) /\ paymentError[orders[i].by] = "none"
    /\ orders[i].metadata.payment_status.present
    /\ Len(payments) = 2 /\ Cardinality(links) = 1
\* Orders i and j (i stored first) were created by two invocations for the same
\* non-empty merchant_order_id.
SameMerchantIdTwice(i, j) ==
  /\ i < j
  /\ orders[i].by \in Procs /\ orders[j].by \in Procs
  /\ HasMerchantId(orders[i].by)
  /\ MetadataMerchantId(orders[i]) = MerchantId(orders[i].by)
  /\ MetadataMerchantId(orders[j]) = MetadataMerchantId(orders[i])

\* C22: the handler instances share nothing but the Order Module, and the duplicate
\* check and the creation are not one transaction: whenever two orders carry the same
\* merchant_order_id, neither creator was answered as a duplicate, and a second
\* creator whose listing returned had arrived before the first had completed (its
\* check ran in the gap before the first order was stored).
C22_DuplicatesFromTheGap ==
  \A i, j \in DOMAIN orders :
    SameMerchantIdTwice(i, j) =>
      LET p == orders[i].by
          q == orders[j].by IN
      /\ p # q
      /\ dupCheck[p] # "found" /\ dupCheck[q] # "found"
      /\ PassedDuplicateCheck(q) => p \notin atStart[q]

C22_Witness ==
  \E i, j \in DOMAIN orders :
    /\ SameMerchantIdTwice(i, j)
    /\ PassedDuplicateCheck(orders[i].by) /\ PassedDuplicateCheck(orders[j].by)
    /\ StatusOf(orders[i].by) = 201 /\ StatusOf(orders[j].by) = 201
\* C23: a call is answered as a duplicate (200) only when its merchant_order_id is
\* non-empty and the order it is answered with was stored for that same
\* merchant_order_id; a call without one is never answered with an existing order.
C23_DuplicateOnlyOfSameMerchantId ==
  \A p \in Procs :
    StatusOf(p) = 200 =>
      /\ HasMerchantId(p)
      /\ \E i \in DOMAIN orders :
           /\ orders[i].id = res[p][1].id
           /\ orders[i].metadata.present
           /\ orders[i].metadata.merchant_order_id = MerchantId(p)

\* C24: when the listing of the duplicate check throws, no response is sent for it
\* and createOrders is called; the call ends with 201 when createOrders stored its
\* order (500 only when createOrders itself threw), whether or not an order with the
\* same merchant_order_id was already stored.
C24_ListingFailureSwallowed ==
  \A p \in Procs :
    ListingThrew(p) =>
      /\ pc[p] \in {"createOrders", "done"}
      /\ calls[p].createOrders = 1
      /\ pc[p] = "createOrders" => res[p] = <<>>
      /\ Finished(p) =>
           /\ Len(res[p]) = 1
           /\ IF OrdersBy(p) # {}
              THEN res[p][1].status = 201 /\ res[p][1].success
              ELSE res[p][1].status = 500

C24_Witness ==
  \E p, q \in Procs :
    /\ ListingThrew(p) /\ StatusOf(p) = 201
    /\ q \in atStart[p] /\ OrdersBy(q) # {}
    /\ HasMerchantId(p) /\ Cardinality(OrdersWithMerchantId(MerchantId(p))) = 2
\* Some payment is attached to collection c.
HasPayment(c) ==
  \E k \in DOMAIN payments : payments[k].payment_collection_id = paymentCollections[c].id

\* C25: an order's metadata carries payment_status "captured" and a
\* payment_collection_id together or not at all, and only when its creator's payment
\* collection, payment and link were all made and no linkage step failed; after a
\* failed step the metadata has neither field, and what the earlier steps made (the
\* collection, the payment, the link) is still there.
C25_CapturedOnlyAfterAllSteps ==
  \A i \in DOMAIN orders :
    LET o == orders[i]
        p == orders[i].by IN
    p \in Procs =>
      /\ o.metadata.payment_status.present <=> o.metadata.payment_collection_id.present
      /\ o.metadata.payment_status.present =>
           /\ o.metadata.payment_status.v = "captured"
           /\ paymentError[p] = "none"
           /\ \E c \in CollectionsOf(o) : HasPayment(c) /\ Linked(c, o)
      /\ paymentError[p] # "none" =>
           /\ ~o.metadata.payment_status.present
           /\ ~o.metadata.payment_collection_id.present
      /\ paymentError[p] = "createPaymentCollections" => CollectionsOf(o) = {}
      /\ paymentError[p] = "createPayments" =>
           \E c \in CollectionsOf(o) : ~HasPayment(c) /\ ~Linked(c, o)
      /\ paymentError[p] = "remoteLinkCreate" =>
           \E c \in CollectionsOf(o) : HasPayment(c) /\ ~Linked(c, o)
      /\ paymentError[p] = "updateOrders" =>
           \E c \in CollectionsOf(o) : HasPayment(c) /\ Linked(c, o)

C25_Witness ==
  \E i, j \in DOMAIN orders :
    /\ orders[i].by \in Procs /\ orders[j].by \in Procs
    /\ paymentError[orders[i].by] = "remoteLinkCreate" /\ Finished(orders[i].by)
    /\ \E c \in CollectionsOf(orders[i]) : HasPayment(c) /\ ~Linked(c, orders[i])
    /\ ~orders[i].metadata.payment_status.present
    /\ orders[j].metadata.payment_status.present
\* The responses p sent so far: none while it runs, exactly one once it has ended,
\* with a status in {200, 201, 400, 500}.
OneResponse(p) ==
  /\ Len(res[p]) <= 1
  /\ Finished(p) <=> Len(res[p]) = 1
  /\ \A k \in DOMAIN res[p] : res[p][k].status \in {200, 201, 400, 500}

\* C26: with every module call settling, every invocation that started ends, and it
\* has then sent exactly one response with a status in {200, 201, 400, 500}; at no
\* time has an invocation sent two responses, or ended with none.
C26_ExactlyOneResponse ==
  /\ [](\A p \in Procs : OneResponse(p))
  /\ \A p \in Procs : Started(p) ~> (Finished(p) /\ Len(res[p]) = 1)

C26_Witness ==
  \E p, q \in Procs :
    /\ Finished(p) /\ Len(res[p]) = 1 /\ res[p][1].status = 200
    /\ Finished(q) /\ Len(res[q]) = 1 /\ res[q][1].status = 201
    /\ calls[p].createOrders = 0 /\ calls[q].createOrders = 1
\* C27: an invocation that has ended answered 201 exactly when its own createOrders
\* call stored an order, and 200 exactly when its duplicate check found an existing
\* order; in that case it did not call createOrders.
C27_StatusMeansOutcome ==
  \A p \in Procs :
    Finished(p) =>
      /\ StatusOf(p) = 201 <=> OrdersBy(p) # {}
      /\ StatusOf(p) = 201 => calls[p].createOrders = 1 /\ Cardinality(OrdersBy(p)) = 1
      /\ StatusOf(p) = 200 <=> dupCheck[p] = "found"
      /\ dupCheck[p] = "found" => calls[p].createOrders = 0

C27_Witness ==
  \E p, q \in Procs :
    /\ Finished(p) /\ StatusOf(p) = 201 /\ OrdersBy(p) # {}
    /\ Finished(q) /\ StatusOf(q) = 200 /\ dupCheck[q] = "found"
    /\ \E i \in OrdersBy(p) : orders[i].id = res[q][1].id
\* The login of call p fails in this step: the fetch throws, or the response read is
\* not OK.
LoginFails(p) ==
  \/ pc[p] = "fetch" /\ pc'[p] = "done"
  \/ pc[p] = "text" /\ pc'[p] = "done"

\* C28: a step in which a call's login fails makes the call throw and leaves the
\* cache as it is, as does the step that receives a response that is not OK; the
\* cache changes only in a step that processes an OK login response, and then holds
\* that response's token and the time of its expires_at.
C28_FailedLoginKeepsCache ==
  [][/\ \A p \in Procs :
          /\ LoginFails(p) => returned'[p].kind = "error" /\ cachedToken' = cachedToken
          /\ (pc[p] = "fetch" /\ pc'[p] = "text") =>
               ~response'[p].ok /\ cachedToken' = cachedToken
     /\ cachedToken' # cachedToken =>
          \E p \in Procs :
            /\ pc[p] = "json" /\ response[p].ok
            /\ returned'[p].kind = "token"
            /\ LoginCached(p)]_vars

C28_Witness ==
  \E p, q \in Procs :
    /\ pc[p] = "done" /\ logins[p] = 1
    /\ returned[p] = [kind |-> "error", v |-> "Airwallex authentication failed"]
    /\ pc[q] = "done" /\ logins[q] = 1
    /\ returned[q] = [kind |-> "error", v |-> "fetch failed"]
    /\ cachedToken.present /\ cachedToken.token = "tok_0"
\* The call p has a login request or its response in hand.
LoginInFlight(p) == pc[p] \in {"fetch", "text", "json"}
\* The cache holds exactly what the login response of p says.
CacheIsResponseOf(p) ==
  /\ cachedToken'.present /\ cachedToken'.token = response[p].token
  /\ cachedToken'.expiresAt.nan = ~response[p].expires_at.iso
  /\ response[p].expires_at.iso => cachedToken'.expiresAt.ms = response[p].expires_at.ms

\* C29: logins are not shared between concurrent calls. A call that starts while
\* another call's login is in flight, on a configured server whose cache does not
\* have more than a minute left, sends a login request of its own; the step that
\* processes a call's successful response returns that response's token and
\* overwrites the cache with that response's token and expiry, whatever the cache
\* held (a later expiry included).
C29_NotSingleFlighted ==
  [][\A p \in Procs :
       /\ (/\ CallStarts(p) /\ configured
           /\ \E q \in Procs \ {p} : LoginInFlight(q)
           /\ ~MoreThanAMinuteLeft(cachedToken, now')) =>
            logins'[p] = logins[p] + 1 /\ pc'[p] = "fetch"
       /\ (pc[p] = "json" /\ pc'[p] = "done" /\ returned'[p].kind # "error") =>
            /\ returned'[p] = [kind |-> "token", v |-> response[p].token]
            /\ logins[p] = 1
            /\ CacheIsResponseOf(p)]_vars

\* Two calls each logged in and returned different tokens; the cache holds the token
\* of the one whose response expires earlier, which was therefore processed last.
C29_Witness ==
  \E p, q \in Procs :
    /\ pc[p] = "done" /\ pc[q] = "done" /\ logins[p] = 1 /\ logins[q] = 1
    /\ returned[p].kind = "token" /\ returned[q].kind = "token"
    /\ returned[p].v = response[p].token /\ returned[q].v = response[q].token
    /\ returned[p].v # returned[q].v
    /\ response[p].expires_at.iso /\ response[q].expires_at.iso
    /\ response[q].expires_at.ms < response[p].expires_at.ms
    /\ cachedToken.token = returned[q].v
    /\ cachedToken.expiresAt = [nan |-> FALSE, ms |-> response[q].expires_at.ms]
\* A field the handler of p requires is absent from the request.
RequiredFieldMissing(p) ==
  CASE handler[p] = "create" -> ~body[p].amount.present \/ ~body[p].currency.present
    [] handler[p] = "confirm" -> ~body[p].payment_intent_id.present
    [] handler[p] = "fetch" -> ~body[p].id.present
    [] OTHER -> FALSE
\* p was answered once, with an {error} body and one of the given statuses.
AnsweredError(p, statuses) ==
  /\ pc[p] = "done" /\ Len(res[p]) = 1
  /\ ~res[p][1].success /\ res[p][1].error # ""
  /\ res[p][1].status \in statuses
\* The gateway's reply to p's login request, or to p's payment-intent request, was
\* not OK.
LoginRefused(p) == response[p].status # 0 /\ ~response[p].ok
IntentRefused(p) == reply[p].status # 0 /\ ~reply[p].ok
\* A request on an unconfigured server, or without a required field, is answered at
\* once (500 for the configuration, 400 for the field), nothing having been sent to
\* the gateway.
AnsweredBeforeAnyRequest ==
  \A p \in Procs :
    (handler[p] # "none" /\ (~configured \/ RequiredFieldMissing(p))) =>
      /\ AnsweredError(p, (IF ~configured THEN {500} ELSE {}) \cup
                          (IF RequiredFieldMissing(p) THEN {400} ELSE {}))
      /\ sent[p] = <<>>
\* A step that answers a request on arrival changes neither token cache.
EarlyAnswerKeepsCaches ==
  \A p \in Procs :
    (pc[p] = "idle" /\ pc'[p] = "done") =>
      /\ cachedToken' = cachedToken /\ confirmCachedToken' = confirmCachedToken
      /\ sent'[p] = <<>>

\* C30 (as stated): early answers as above, and every gateway reply that is not OK,
\* the login reply included, is passed on with the gateway's status and an {error}
\* body.
C30_Original ==
  /\ [](AnsweredBeforeAnyRequest /\
        \A p \in Procs :
          /\ (pc[p] = "done" /\ LoginRefused(p)) => AnsweredError(p, {response[p].status})
          /\ (pc[p] = "done" /\ IntentRefused(p)) => AnsweredError(p, {reply[p].status}))
  /\ [][EarlyAnswerKeepsCaches]_vars

\* C30: in the create, confirm and fetch handlers a missing configuration (500) or a
\* missing required field (400) is answered before any request is sent to the
\* gateway, the login request included, and the answering step leaves the token
\* caches unchanged; a reply to the payment-intent request that is not OK is passed
\* on with the gateway's status code and an {error} body, while a login reply that
\* is not OK is answered with 500 and an {error} body, no payment-intent request
\* having been sent.
C30_EarlyAnswersAndPassThrough ==
  /\ [](AnsweredBeforeAnyRequest /\
        \A p \in Procs :
          /\ (pc[p] = "done" /\ LoginRefused(p)) =>
               AnsweredError(p, {500}) /\ sent[p] = <<"POST /authentication/login">>
          /\ (pc[p] = "done" /\ IntentRefused(p)) =>
               AnsweredError(p, {reply[p].status}) /\ res[p][1].status \in {400, 404})
  /\ [][EarlyAnswerKeepsCaches]_vars

\* One request logged in, sent its payment-intent request and passed the gateway's
\* 404 on; another, without its required field, was answered 400 with nothing sent,
\* the cache still holding the first one's token.
C30_Witness ==
  \E p, q \in Procs :
    /\ pc[p] = "done" /\ handler[p] = "create" /\ Len(sent[p]) = 2
    /\ IntentRefused(p) /\ reply[p].status = 404 /\ res[p][1].status = 404
    /\ pc[q] = "done" /\ handler[q] = "fetch" /\ RequiredFieldMissing(q) /\ configured
    /\ res[q][1].status = 400 /\ sent[q] = <<>>
    /\ cachedToken.present /\ cachedToken.token = response[p].token

====
